---- MODULE Spec2Model ----
(***************************************************************************)
(* Markdown frontmatter pipeline of rp-utils (src/src/markdown.ts):        *)
(* parseMarkdownFile (line scan, YAML decode, date coercion) and           *)
(* getMarkdownObjects (concurrent batch collection).                        *)
(*                                                                         *)
(* Text is a sequence of one-character strings, so that split, trim and    *)
(* join are computed character by character as the code computes them.     *)
(***************************************************************************)
EXTENDS Integers, Sequences, FiniteSets, TLC

(* ------------------------------ bounds -------------------------------- *)

\* longest file, in lines, that Init enumerates
MaxLines == 4

\* largest directory, in files, that InitBatch enumerates
MaxFiles == 3

\* longest list of documents that InitValidate enumerates
MaxObjects == 3

\* most keys of a mapping that InitDates enumerates
MaxKeys == 2

\* most lines of a body that InitWrite enumerates
MaxBodyLines == 2

\* longest array that InitObjects enumerates, and largest page size
MaxRows == 4

MaxPageSize == 3

\* largest dividend and divisor, in absolute value, that divideWithRemainder is called with
MaxDividend == 17

MaxDivisor == 5

(* --------------------------- text primitives -------------------------- *)

LF == "\n"
CR == "\r"

\* the characters String.prototype.trim removes (those the files use)
WhiteSpace == {" ", "\t", LF, CR}

Digits == {"0", "1", "2", "3", "4", "5", "6", "7", "8", "9"}

RECURSIVE Flatten(_, _)
\* Array.prototype.join: the lines, with sep between consecutive ones
Flatten(lines, sep) ==
    IF Len(lines) = 0 THEN <<>>
    ELSE IF Len(lines) = 1 THEN lines[1]
    ELSE lines[1] \o sep \o Flatten(Tail(lines), sep)

JoinLF(lines) == Flatten(lines, <<LF>>)

RECURSIVE TrimStart(_)
TrimStart(s) ==
    IF Len(s) > 0 /\ s[1] \in WhiteSpace THEN TrimStart(Tail(s)) ELSE s

RECURSIVE TrimEnd(_)
TrimEnd(s) ==
    IF Len(s) > 0 /\ s[Len(s)] \in WhiteSpace
    THEN TrimEnd(SubSeq(s, 1, Len(s) - 1))
    ELSE s

\* String.prototype.trim
Trim(s) == TrimEnd(TrimStart(s))

\* faulty variant: the split is on "\n" alone, a "\r" before it stays in the line
StripCR_KeepsCR(s) == s

\* a separator match of /\r?\n/ ends at a "\n"; a "\r" right before it is part of it
StripCR(s) ==
    IF Len(s) > 0 /\ s[Len(s)] = CR THEN SubSeq(s, 1, Len(s) - 1) ELSE s

RECURSIVE SplitFrom(_, _, _, _)
SplitFrom(text, i, cur, acc) ==
    IF i > Len(text) THEN Append(acc, cur)
    ELSE IF text[i] = LF THEN SplitFrom(text, i + 1, <<>>, Append(acc, StripCR(cur)))
    ELSE SplitFrom(text, i + 1, Append(cur, text[i]), acc)

\* allFileContents.split(/\r?\n/)
SplitLines(text) == SplitFrom(text, 1, <<>>, <<>>)

\* index of the first occurrence of the two characters a, b in s, or 0
FirstPair(s, a, b) ==
    LET hits == {i \in 1..(Len(s) - 1) : s[i] = a /\ s[i + 1] = b}
    IN  IF hits = {} THEN 0 ELSE CHOOSE i \in hits : \A j \in hits : i <= j

(* ------------------------------ values -------------------------------- *)

\* a frontmatter value: a string, null, a flow collection, or a Date object
StringValue(c) == [kind |-> "string", chars |-> c, time |-> <<>>, zone |-> "none"]

NullValue == [kind |-> "null", chars |-> <<>>, time |-> <<>>, zone |-> "none"]

NestedValue(c) == [kind |-> "nested", chars |-> c, time |-> <<>>, zone |-> "none"]

\* a Date object holding a time value: <<year, month, day, hour, minute>> in zone
DateValue(t, z) == [kind |-> "date", chars |-> <<>>, time |-> t, zone |-> z]

\* the Date object whose time value is NaN ("Invalid Date")
InvalidDate == [kind |-> "date", chars |-> <<>>, time |-> <<>>, zone |-> "none"]

DigitVal == [c \in Digits |->
    CASE c = "0" -> 0 [] c = "1" -> 1 [] c = "2" -> 2 [] c = "3" -> 3 [] c = "4" -> 4
      [] c = "5" -> 5 [] c = "6" -> 6 [] c = "7" -> 7 [] c = "8" -> 8 [] c = "9" -> 9]

RECURSIVE ToInt(_)
ToInt(s) == IF Len(s) = 0 THEN 0 ELSE 10 * ToInt(SubSeq(s, 1, Len(s) - 1)) + DigitVal[s[Len(s)]]

IsLeapYear(y) == (y % 4 = 0 /\ y % 100 # 0) \/ y % 400 = 0

DaysInMonth(y, m) ==
    IF m = 2 THEN (IF IsLeapYear(y) THEN 29 ELSE 28)
    ELSE IF m \in {4, 6, 9, 11} THEN 30 ELSE 31

(* ----------------------- the YAML decoder (js-yaml) -------------------- *)
(* yaml.load is an external library.  It is modelled on the block subset   *)
(* the files use: "key: value" entries, "- item" entries, plain and        *)
(* single-quoted scalars, "~", and flow sequences left open.               *)

YamlDocument(kind, entries, message) ==
    [kind |-> kind, entries |-> entries, message |-> message]

IsBlankLine(line) == Trim(line) = <<>>

\* a flow collection that is opened and never closed
HasOpenFlow(line) ==
    /\ \E i \in 1..Len(line) : line[i] = "["
    /\ \A i \in 1..Len(line) : line[i] # "]"

IsItemLine(line) == Len(line) >= 2 /\ line[1] = "-" /\ line[2] = " "

IsEntryLine(line) ==
    /\ ~IsItemLine(line)
    /\ \/ FirstPair(line, ":", " ") > 1
       \/ (Len(line) > 1 /\ line[Len(line)] = ":")

\* the scalar a node's text resolves to
ResolveScalar(c) ==
    IF c = <<>> \/ c = <<"~">> THEN NullValue
    ELSE IF Len(c) >= 2 /\ c[1] = "'" /\ c[Len(c)] = "'"
         THEN StringValue(SubSeq(c, 2, Len(c) - 1))
    ELSE IF c[1] = "[" THEN NestedValue(c)
    ELSE StringValue(c)

EntryOf(line) ==
    LET p == FirstPair(line, ":", " ")
    IN  IF p > 1
        THEN [key |-> SubSeq(line, 1, p - 1),
              value |-> ResolveScalar(Trim(SubSeq(line, p + 2, Len(line))))]
        ELSE [key |-> SubSeq(line, 1, Len(line) - 1), value |-> NullValue]

ItemOf(line) == [key |-> <<>>, value |-> ResolveScalar(Trim(SubSeq(line, 3, Len(line))))]

\* yaml.load(rawFrontMatter): the decoded document, or kind "throw" with the message
yamlLoad(raw) ==
    LET lines == SelectSeq(SplitLines(raw), LAMBDA l : ~IsBlankLine(l))
        n == Len(lines)
    IN  IF \E i \in 1..n : HasOpenFlow(lines[i])
        THEN YamlDocument("throw", <<>>, "unexpected end of the stream within a flow collection")
        ELSE IF \A i \in 1..n : IsEntryLine(lines[i])
        THEN LET entries == [i \in 1..n |-> EntryOf(lines[i])]
             IN  IF \E i, j \in 1..n : i < j /\ entries[i].key = entries[j].key
                 THEN YamlDocument("throw", <<>>, "duplicated mapping key")
                 ELSE YamlDocument("mapping", entries, "")
        ELSE IF \A i \in 1..n : IsItemLine(lines[i])
        THEN YamlDocument("sequence", [i \in 1..n |-> ItemOf(lines[i])], "")
        ELSE IF ~IsItemLine(lines[1]) /\ \A i \in 1..n : ~IsEntryLine(lines[i])
        THEN IF n = 1 /\ ResolveScalar(lines[1]).kind = "null"
             THEN YamlDocument("null", <<>>, "")
             ELSE YamlDocument("scalar", <<>>, "")
        ELSE YamlDocument("throw", <<>>, "bad indentation of a mapping entry")

(* --------------------------- date coercion ----------------------------- *)

AllDigits(s, from, to) == \A i \in from..to : s[i] \in Digits

\* datePattern.test(value) for /^\d{4}-\d{2}-\d{2}( \d{2}:\d{2})?$/
MatchesDatePattern(s) ==
    /\ Len(s) \in {10, 16}
    /\ AllDigits(s, 1, 4) /\ s[5] = "-" /\ AllDigits(s, 6, 7) /\ s[8] = "-"
    /\ AllDigits(s, 9, 10)
    /\ Len(s) = 16 =>
          /\ s[11] = " " /\ AllDigits(s, 12, 13) /\ s[14] = ":" /\ AllDigits(s, 15, 16)

\* the JavaScript engines differ on a day past the end of its month
Engines == {"strict", "lenient"}

\* new Date(value) of "YYYY-MM-DD" (read as UTC), of "YYYY-MM-DD HH:MM" and of
\* "YYYY-MM-DDTHH:MM:SS" (both read as local time): always a Date object
NewDate(s, engine) ==
    LET y == ToInt(SubSeq(s, 1, 4))
        m == ToInt(SubSeq(s, 6, 7))
        d == ToInt(SubSeq(s, 9, 10))
        hh == IF Len(s) >= 16 THEN ToInt(SubSeq(s, 12, 13)) ELSE 0
        mi == IF Len(s) >= 16 THEN ToInt(SubSeq(s, 15, 16)) ELSE 0
        zone == IF Len(s) >= 16 THEN "local" ELSE "utc"
    IN  IF m \notin 1..12 \/ d \notin 1..31 \/ hh > 23 \/ mi > 59 THEN InvalidDate
        ELSE IF d <= DaysInMonth(y, m) THEN DateValue(<<y, m, d, hh, mi>>, zone)
        ELSE IF engine = "lenient"
             THEN DateValue(<<y, m + 1, d - DaysInMonth(y, m), hh, mi>>, "local")
        ELSE InvalidDate

\* one iteration of the loop of convertFrontMatterStringDates
ConvertValue(value, engine) ==
    IF value.kind = "string"
    THEN IF MatchesDatePattern(value.chars) THEN NewDate(value.chars, engine) ELSE value
    ELSE value

\* convertFrontMatterStringDates: the entries of the result, in insertion order
convertFrontMatterStringDates(parsedFrontMatter, engine) ==
    [i \in 1..Len(parsedFrontMatter) |->
        [key |-> parsedFrontMatter[i].key,
         value |-> ConvertValue(parsedFrontMatter[i].value, engine)]]

(* ------------------------------ the files ------------------------------ *)

\* the text of a line of the vocabulary, character by character
Chars(line) ==
    CASE line = "---" -> <<"-", "-", "-">>
      [] line = " --- " -> <<" ", "-", "-", "-", " ">>
      [] line = "t: x" -> <<"t", ":", " ", "x">>
      [] line = "d: '2025-02-30'" ->
            <<"d", ":", " ", "'", "2", "0", "2", "5", "-", "0", "2", "-", "3", "0", "'">>
      [] line = "- a" -> <<"-", " ", "a">>
      [] line = "hello" -> <<"h", "e", "l", "l", "o">>
      [] line = " " -> <<" ">>
      [] line = "k: [" -> <<"k", ":", " ", "[">>
      [] line = "~" -> <<"~">>
      [] line = "" -> <<>>
      [] line = "2025" -> <<"2", "0", "2", "5">>
      [] line = "2024" -> <<"2", "0", "2", "4">>
      [] line = "2023" -> <<"2", "0", "2", "3">>
      [] line = "0999" -> <<"0", "9", "9", "9">>
      [] line = "0050" -> <<"0", "0", "5", "0">>
      [] line = "00" -> <<"0", "0">>
      [] line = "02" -> <<"0", "2">>
      [] line = "04" -> <<"0", "4">>
      [] line = "12" -> <<"1", "2">>
      [] line = "13" -> <<"1", "3">>
      [] line = "15" -> <<"1", "5">>
      [] line = "29" -> <<"2", "9">>
      [] line = "30" -> <<"3", "0">>
      [] line = "31" -> <<"3", "1">>
      [] line = "32" -> <<"3", "2">>
      [] line = "11-15-2025" -> <<"1", "1", "-", "1", "5", "-", "2", "0", "2", "5">>
      [] line = " 2025-11-15 " -> <<" ", "2", "0", "2", "5", "-", "1", "1", "-", "1", "5", " ">>
      [] line = "t" -> <<"t">>
      [] line = "d" -> <<"d">>
      [] line = "k" -> <<"k">>
      [] line = "x" -> <<"x">>
      [] line = "2025-11-15" -> <<"2", "0", "2", "5", "-", "1", "1", "-", "1", "5">>
      [] line = "2024-02-29" -> <<"2", "0", "2", "4", "-", "0", "2", "-", "2", "9">>
      [] line = "2025-03-01" -> <<"2", "0", "2", "5", "-", "0", "3", "-", "0", "1">>
      [] line = "0999-12-31" -> <<"0", "9", "9", "9", "-", "1", "2", "-", "3", "1">>
      [] line = "2025-99-99" -> <<"2", "0", "2", "5", "-", "9", "9", "-", "9", "9">>
      [] line = "2025-02-30" -> <<"2", "0", "2", "5", "-", "0", "2", "-", "3", "0">>
      [] line = "2025-11-15 10:30" -> <<"2", "0", "2", "5", "-", "1", "1", "-", "1", "5", " ", "1", "0", ":", "3", "0">>
      [] line = "2025-11-15 25:00" -> <<"2", "0", "2", "5", "-", "1", "1", "-", "1", "5", " ", "2", "5", ":", "0", "0">>
      [] line = "T00:00:00" -> <<"T", "0", "0", ":", "0", "0", ":", "0", "0">>

Vocabulary == {"---", " --- ", "t: x", "d: '2025-02-30'", "- a", "hello", " ", "k: [", "~"}

LineEndings == {"LF", "CRLF"}

EndOfLine(eol) == IF eol = "CRLF" THEN <<CR, LF>> ELSE <<LF>>

\* a file on disk: its lines, its line ending, and whether reading it succeeds
File(lines, eol, readable) == [lines |-> lines, eol |-> eol, readable |-> readable]

UnreadableFile == File(<<>>, "LF", FALSE)

ReadableFiles ==
    {File(lines, eol, TRUE) :
        lines \in UNION {[1..n -> Vocabulary] : n \in 0..MaxLines}, eol \in LineEndings}

\* what fsa.readFile(filename, "utf-8") resolves with
FileText(f) == Flatten([i \in 1..Len(f.lines) |-> Chars(f.lines[i])], EndOfLine(f.eol))

(* --------------------------- parseMarkdownFile ------------------------- *)

Delimiter == <<"-", "-", "-">>

NewScan ==
    [frontMatterLines |-> <<>>, contentLines |-> <<>>,
     frontMatterDelimiterCount |-> 0, inFrontMatter |-> FALSE]

\* faulty variant: off by one: body lines are kept only after a third delimiter
ScanStep_BodyAfterThird(st, line) ==
    IF Trim(line) = Delimiter
    THEN [st EXCEPT !.frontMatterDelimiterCount = @ + 1,
                    !.inFrontMatter =
                        IF st.frontMatterDelimiterCount + 1 = 1 THEN TRUE
                        ELSE IF st.frontMatterDelimiterCount + 1 = 2 THEN FALSE
                        ELSE @]
    ELSE IF st.inFrontMatter
         THEN [st EXCEPT !.frontMatterLines = Append(@, line)]
    ELSE IF st.frontMatterDelimiterCount > 2
         THEN [st EXCEPT !.contentLines = Append(@, line)]
    ELSE IF st.frontMatterDelimiterCount = 0
         THEN [st EXCEPT !.contentLines = Append(@, line)]
    ELSE st

\* faulty variant: every delimiter line flips the flag, the third one reopens the block
ScanStep_FlagToggles(st, line) ==
    IF Trim(line) = Delimiter
    THEN [st EXCEPT !.frontMatterDelimiterCount = @ + 1, !.inFrontMatter = ~@]
    ELSE IF st.inFrontMatter
         THEN [st EXCEPT !.frontMatterLines = Append(@, line)]
    ELSE IF st.frontMatterDelimiterCount >= 2
         THEN [st EXCEPT !.contentLines = Append(@, line)]
    ELSE IF st.frontMatterDelimiterCount = 0
         THEN [st EXCEPT !.contentLines = Append(@, line)]
    ELSE st

\* one iteration of "for (const line of fileLines)"
ScanStep(st, line) ==
    IF Trim(line) = Delimiter
    THEN [st EXCEPT !.frontMatterDelimiterCount = @ + 1,
                    !.inFrontMatter =
                        IF st.frontMatterDelimiterCount + 1 = 1 THEN TRUE
                        ELSE IF st.frontMatterDelimiterCount + 1 = 2 THEN FALSE
                        ELSE @]
    ELSE IF st.inFrontMatter
         THEN [st EXCEPT !.frontMatterLines = Append(@, line)]
    ELSE IF st.frontMatterDelimiterCount >= 2
         THEN [st EXCEPT !.contentLines = Append(@, line)]
    ELSE IF st.frontMatterDelimiterCount = 0
         THEN [st EXCEPT !.contentLines = Append(@, line)]
    ELSE st

RECURSIVE ScanFrom(_, _, _)
\* the whole loop, from line i on
ScanFrom(lines, i, st) ==
    IF i > Len(lines) THEN st ELSE ScanFrom(lines, i + 1, ScanStep(st, lines[i]))

Success(frontMatter, content) ==
    [success |-> TRUE, data |-> [frontMatter |-> frontMatter, content |-> content]]

Failure(error, filename) == [success |-> FALSE, error |-> error, filename |-> filename]

\* Object.entries(parsed): a mapping's entries; an array's elements under their indices
IndexKey(i) == <<CHOOSE c \in Digits : DigitVal[c] = (i - 1) % 10>>

ObjectEntries(doc) ==
    IF doc.kind = "sequence"
    THEN [i \in 1..Len(doc.entries) |-> [key |-> IndexKey(i), value |-> doc.entries[i].value]]
    ELSE doc.entries

\* parsed && typeof parsed === "object"
IsObject(doc) == doc.kind \in {"mapping", "sequence"}

\* the try block: decode, normalise, coerce the dates; a decoder error becomes a Failure
DecodeBlock(rawFrontMatter, content, filename, engine) ==
    LET parsed == yamlLoad(rawFrontMatter)
    IN  IF parsed.kind = "throw"
        THEN Failure(parsed.message, filename)
        ELSE Success(
                convertFrontMatterStringDates(
                    IF IsObject(parsed) THEN ObjectEntries(parsed) ELSE <<>>, engine),
                content)

\* faulty variant: an empty block is a document without frontmatter, as in earlier versions
Decode_EmptyBlockSucceeds(st, filename, engine) ==
    LET rawFrontMatter == Trim(JoinLF(st.frontMatterLines))
    IN  IF rawFrontMatter # <<>>
        THEN DecodeBlock(rawFrontMatter, JoinLF(st.contentLines), filename, engine)
        ELSE Success(<<>>, JoinLF(st.contentLines))

\* faulty variant: a block that was never closed is rejected before decoding
Decode_RequiresClosedBlock(st, filename, engine) ==
    LET rawFrontMatter == Trim(JoinLF(st.frontMatterLines))
    IN  IF rawFrontMatter # <<>> /\ st.frontMatterDelimiterCount >= 2
        THEN DecodeBlock(rawFrontMatter, JoinLF(st.contentLines), filename, engine)
        ELSE Failure("Failed to parse frontmatter", filename)

\* the part of parseMarkdownFile after the loop
Decode(st, filename, engine) ==
    LET rawFrontMatter == Trim(JoinLF(st.frontMatterLines))
    IN  IF rawFrontMatter # <<>>
        THEN DecodeBlock(rawFrontMatter, JoinLF(st.contentLines), filename, engine)
        ELSE Failure("Failed to parse frontmatter", filename)

\* parseMarkdownFile of a readable file: the ParseResult it resolves with
\* parseMarkdownFile from the split on: text is what readFile resolved with
ParseText(text, filename, engine) ==
    Decode(ScanFrom(SplitLines(text), 1, NewScan), filename, engine)

parseMarkdownFile(f, filename, engine) == ParseText(FileText(f), filename, engine)

(* ------------------------------- state --------------------------------- *)

VARIABLES
    engine,                     \* the JavaScript engine of this run
    \* one call of parseMarkdownFile
    file,                       \* the file that filename names
    pc,                         \* "read", "scan", "resolved", "rejected" ("idle": no call)
    fileLines,
    lineIndex,                  \* position of the for loop in fileLines
    frontMatterLines,
    contentLines,
    frontMatterDelimiterCount,
    inFrontMatter,
    result,                     \* the ParseResult the promise resolved with
    \* one call of getMarkdownObjects
    folder,                     \* the directory on disk
    batch,                      \* "start", "awaiting", "resolved", "rejected" ("idle": no call)
    fileInfo,
    tasks,                      \* per entry of fileInfo: "reading", "fulfilled", "rejected"
    successful,
    failed,
    completionOrder,            \* history: the entries of fileInfo in order of completion
    returned,                   \* the MarkdownParseResult the promise resolved with
    \* one call of validateMarkdownObjects
    objects,                    \* the argument: a list of MarkdownFileResult
    schema,                     \* the argument: the Zod schema
    inputObjects,               \* history: the argument as it was at the call
    vpc,                        \* "loop", "done" ("idle": no call)
    objIndex,                   \* position of the for loop in objects
    validationErrors,
    validatedObjects,
    filesFound,
    filesValid,
    previousFilename,
    \* one call of convertFrontmatterDateStrings, then of the date formatter
    tzOffset,                   \* the host's zone: minutes east of UTC
    obj,                        \* the argument: a front matter mapping
    inputObj,                   \* history: the argument as it was at the call
    dpc,                        \* "loop", "returned" ("idle": no call)
    entryIndex,                 \* position of the for loop in Object.entries(result)
    dateResult,                 \* the local variable result
    warnings,                   \* the keys console.warn was called for
    formatted,                  \* per key: convertDateToStringYYYY_MM_DD of the Date there
    \* one call of writeMarkdownFile
    parsedMarkdown,             \* the argument: frontMatter and content
    disk,                       \* the output file: writable, written, text
    wpc,                        \* "write", "resolved", "rejected" ("idle": no call)
    \* one call of convertStringYYYY_MM_DDToDate, then of the date formatter
    dateStringArg,              \* the argument dateString
    converted,                  \* the outcome: the Date returned or the Error thrown
    reformatted,                \* convertDateToStringYYYY_MM_DD of the Date returned
    cpc,                        \* "call", "returned", "threw", "formatted" ("idle": no call)
    \* a Pager, and one call on it or of getPagedData or divideWithRemainder
    arr,                        \* Pager.arr, and the allObjects of getPagedData
    rowCount,
    pageSize,
    totalPages,
    opc,                        \* "ready", "done" ("idle": no Pager)
    outcome                     \* the call made, and what it returned or that it threw

parseVars ==
    <<file, pc, fileLines, lineIndex, frontMatterLines, contentLines,
      frontMatterDelimiterCount, inFrontMatter, result>>

batchVars ==
    <<folder, batch, fileInfo, tasks, successful, failed, completionOrder, returned>>

validateVars ==
    <<objects, schema, inputObjects, vpc, objIndex, validationErrors, validatedObjects,
      filesFound, filesValid, previousFilename>>

dateVars ==
    <<tzOffset, obj, inputObj, dpc, entryIndex, dateResult, warnings, formatted>>

writeVars == <<parsedMarkdown, disk, wpc>>

libVars ==
    <<dateStringArg, converted, reformatted, cpc,
      arr, rowCount, pageSize, totalPages, opc, outcome>>

utilVars == <<validateVars, dateVars, writeVars, libVars>>

vars == <<engine, parseVars, batchVars, utilVars>>

NoResult == [success |-> FALSE, error |-> "", filename |-> <<>>]

NoFolder == [exists |-> FALSE, files |-> <<>>]

NoReturn == [successful |-> <<>>, failed |-> <<>>]

\* the name parseMarkdownFile is called with
TheFilename == <<"posts", 1>>

ParseIdle ==
    /\ file = UnreadableFile /\ pc = "idle" /\ fileLines = <<>> /\ lineIndex = 0
    /\ frontMatterLines = <<>> /\ contentLines = <<>>
    /\ frontMatterDelimiterCount = 0 /\ inFrontMatter = FALSE /\ result = NoResult

BatchIdle ==
    /\ folder = NoFolder /\ batch = "idle" /\ fileInfo = <<>> /\ tasks = <<>>
    /\ successful = <<>> /\ failed = <<>> /\ completionOrder = <<>> /\ returned = NoReturn

NoSchema == [fields |-> <<>>, strict |-> FALSE]

ValidateIdle ==
    /\ objects = <<>> /\ schema = NoSchema /\ inputObjects = <<>> /\ vpc = "idle" /\ objIndex = 0
    /\ validationErrors = <<>> /\ validatedObjects = <<>>
    /\ filesFound = 0 /\ filesValid = 0 /\ previousFilename = <<>>

DatesIdle ==
    /\ tzOffset = 0 /\ obj = <<>> /\ inputObj = <<>> /\ dpc = "idle" /\ entryIndex = 0
    /\ dateResult = <<>> /\ warnings = <<>> /\ formatted = <<>>

NoDisk == [writable |-> FALSE, written |-> FALSE, text |-> <<>>]

NoDocument == [frontMatter |-> <<>>, content |-> <<>>]

WriteIdle == parsedMarkdown = NoDocument /\ disk = NoDisk /\ wpc = "idle"

NoOutcome == [call |-> "", args |-> <<>>, threw |-> FALSE, value |-> <<>>]

LibIdle ==
    /\ dateStringArg = NullValue /\ cpc = "idle"
    /\ converted = [error |-> "", date |-> InvalidDate] /\ reformatted = <<>>
    /\ arr = <<>> /\ rowCount = 0 /\ pageSize = 0 /\ totalPages = 0
    /\ opc = "idle" /\ outcome = NoOutcome

UtilIdle == ValidateIdle /\ DatesIdle /\ WriteIdle /\ LibIdle

(* ---------------------- parseMarkdownFile, step by step ---------------- *)

Init ==
    /\ engine \in Engines
    /\ file \in ReadableFiles \cup {UnreadableFile}
    /\ pc = "read" /\ fileLines = <<>> /\ lineIndex = 0
    /\ frontMatterLines = <<>> /\ contentLines = <<>>
    /\ frontMatterDelimiterCount = 0 /\ inFrontMatter = FALSE /\ result = NoResult
    /\ BatchIdle
    /\ UtilIdle

\* await fsa.readFile(filename, "utf-8") resolves; the text is split
ReadFileResolves ==
    /\ pc = "read" /\ file.readable
    /\ fileLines' = SplitLines(FileText(file))
    /\ lineIndex' = 1
    /\ pc' = "scan"
    /\ UNCHANGED <<engine, file, frontMatterLines, contentLines,
                   frontMatterDelimiterCount, inFrontMatter, result, batchVars, utilVars>>

\* await fsa.readFile rejects: nothing catches it, the returned promise rejects
ReadFileRejects ==
    /\ pc = "read" /\ ~file.readable
    /\ pc' = "rejected"
    /\ UNCHANGED <<engine, file, fileLines, lineIndex, frontMatterLines, contentLines,
                   frontMatterDelimiterCount, inFrontMatter, result, batchVars, utilVars>>

ScanOf ==
    [frontMatterLines |-> frontMatterLines, contentLines |-> contentLines,
     frontMatterDelimiterCount |-> frontMatterDelimiterCount,
     inFrontMatter |-> inFrontMatter]

\* one iteration of the loop over fileLines
ScanLine ==
    /\ pc = "scan" /\ lineIndex <= Len(fileLines)
    /\ LET st == ScanStep(ScanOf, fileLines[lineIndex])
       IN  /\ frontMatterLines' = st.frontMatterLines
           /\ contentLines' = st.contentLines
           /\ frontMatterDelimiterCount' = st.frontMatterDelimiterCount
           /\ inFrontMatter' = st.inFrontMatter
    /\ lineIndex' = lineIndex + 1
    /\ UNCHANGED <<engine, file, pc, fileLines, result, batchVars, utilVars>>

\* the loop is over: decode the block, coerce the dates, return the ParseResult
DecodeFrontMatter ==
    /\ pc = "scan" /\ lineIndex > Len(fileLines)
    /\ result' = Decode(ScanOf, TheFilename, engine)
    /\ pc' = "resolved"
    /\ UNCHANGED <<engine, file, fileLines, lineIndex, frontMatterLines, contentLines,
                   frontMatterDelimiterCount, inFrontMatter, batchVars, utilVars>>

Next == ReadFileResolves \/ ReadFileRejects \/ ScanLine \/ DecodeFrontMatter

Spec == Init /\ [][Next]_vars

(* --------------------------- getMarkdownObjects ------------------------ *)

\* the files the directories of InitBatch are made of
WellFormedFile == File(<<"---", "t: x", "---", "hello">>, "LF", TRUE)

InvalidYamlFile == File(<<"---", "k: [", "---", "hello">>, "CRLF", TRUE)

NoFrontMatterFile == File(<<"hello", "hello">>, "LF", TRUE)

DatedFile == File(<<"---", "d: '2025-02-30'", "t: x", "---">>, "LF", TRUE)

BatchFiles == {WellFormedFile, InvalidYamlFile, NoFrontMatterFile, DatedFile, UnreadableFile}

Folders ==
    {[exists |-> TRUE, files |-> fs] : fs \in UNION {[1..n -> BatchFiles] : n \in 0..MaxFiles}}
        \cup {NoFolder}

Dirent(name, parentPath) == [name |-> name, parentPath |-> parentPath]

\* getAllDirEntries: the file entries of the directory, or undefined when it is missing
getAllDirEntries(f) ==
    IF ~f.exists THEN [defined |-> FALSE, entries |-> <<>>]
    ELSE [defined |-> TRUE, entries |-> [i \in 1..Len(f.files) |-> Dirent(i, "posts")]]

\* path.join(fi.parentPath, fi.name)
FullFilename(fi) == <<fi.parentPath, fi.name>>

\* the file on disk that an entry names
FileOf(fi) == folder.files[fi.name]

InitBatch ==
    /\ engine \in Engines
    /\ folder \in Folders
    /\ batch = "start" /\ fileInfo = <<>> /\ tasks = <<>>
    /\ successful = <<>> /\ failed = <<>> /\ completionOrder = <<>> /\ returned = NoReturn
    /\ ParseIdle
    /\ UtilIdle

\* faulty variant: no "?? []", so mapping over undefined throws inside the async function
StartTasks_NoFallback ==
    /\ batch = "start"
    /\ LET entries == getAllDirEntries(folder)
       IN  /\ fileInfo' = IF entries.defined THEN entries.entries ELSE <<>>
           /\ batch' = IF entries.defined THEN "awaiting" ELSE "rejected"
    /\ tasks' = [i \in 1..Len(fileInfo') |-> "reading"]
    /\ UNCHANGED <<engine, folder, successful, failed, completionOrder, returned, parseVars, utilVars>>

\* getAllDirEntries(folder) ?? [], then fileInfo.map starts every task up to its await
StartTasks ==
    /\ batch = "start"
    /\ LET entries == getAllDirEntries(folder)
       IN  fileInfo' = IF entries.defined THEN entries.entries ELSE <<>>
    /\ tasks' = [i \in 1..Len(fileInfo') |-> "reading"]
    /\ batch' = "awaiting"
    /\ UNCHANGED <<engine, folder, successful, failed, completionOrder, returned, parseVars, utilVars>>

\* faulty variant: the outcome is put at the head of its list
PushResult_Unshift(fi, r) ==
    IF r.success
    THEN /\ successful' = <<[dirent |-> fi, markdownObject |-> r.data]>> \o successful
         /\ failed' = failed
    ELSE /\ failed' = <<[filename |-> FullFilename(fi), dirent |-> fi, error |-> r.error]>>
                        \o failed
         /\ successful' = successful

\* the rest of the map callback, once parseMarkdownFile has resolved with r
PushResult(fi, r) ==
    IF r.success
    THEN /\ successful' = Append(successful, [dirent |-> fi, markdownObject |-> r.data])
         /\ failed' = failed
    ELSE /\ failed' = Append(failed,
                [filename |-> FullFilename(fi), dirent |-> fi, error |-> r.error])
         /\ successful' = successful

\* task i: the read resolves, the file is parsed and its outcome pushed
TaskResolves(i) ==
    /\ batch # "start" /\ tasks[i] = "reading" /\ FileOf(fileInfo[i]).readable
    /\ PushResult(fileInfo[i],
                  parseMarkdownFile(FileOf(fileInfo[i]), FullFilename(fileInfo[i]), engine))
    /\ tasks' = [tasks EXCEPT ![i] = "fulfilled"]
    /\ completionOrder' = Append(completionOrder, i)
    /\ UNCHANGED <<engine, folder, batch, fileInfo, returned, parseVars, utilVars>>

\* task i: the read rejects inside parseMarkdownFile, so the task's promise rejects
TaskRejects(i) ==
    /\ batch # "start" /\ tasks[i] = "reading" /\ ~FileOf(fileInfo[i]).readable
    /\ tasks' = [tasks EXCEPT ![i] = "rejected"]
    /\ completionOrder' = Append(completionOrder, i)
    /\ UNCHANGED <<engine, folder, batch, fileInfo, successful, failed, returned, parseVars, utilVars>>

\* Promise.all fulfils when every task has; the function returns the two lists
PromiseAllFulfils ==
    /\ batch = "awaiting"
    /\ \A i \in 1..Len(tasks) : tasks[i] = "fulfilled"
    /\ returned' = [successful |-> successful, failed |-> failed]
    /\ batch' = "resolved"
    /\ UNCHANGED <<engine, folder, fileInfo, tasks, successful, failed, completionOrder,
                   parseVars, utilVars>>

\* Promise.all rejects when a task has; the await throws and the function's promise rejects
PromiseAllRejects ==
    /\ batch = "awaiting"
    /\ \E i \in 1..Len(tasks) : tasks[i] = "rejected"
    /\ batch' = "rejected"
    /\ UNCHANGED <<engine, folder, fileInfo, tasks, successful, failed, completionOrder,
                   returned, parseVars, utilVars>>

NextBatch ==
    \/ StartTasks
    \/ \E i \in 1..Len(tasks) : TaskResolves(i)
    \/ \E i \in 1..Len(tasks) : TaskRejects(i)
    \/ PromiseAllFulfils
    \/ PromiseAllRejects

SpecBatch == InitBatch /\ [][NextBatch]_vars

(* ------------------------- validateMarkdownObjects --------------------- *)

\* a Zod object schema: its fields in declaration order, and whether it is .strict()
ObjectSchema(fields, strict) == [fields |-> fields, strict |-> strict]

Field(key, kind) == [key |-> Chars(key), kind |-> kind]

\* z.object({ t: z.string(), d: z.date() }), plain and .strict()
Schemas ==
    {ObjectSchema(<<Field("t", "string"), Field("d", "date")>>, strict) :
        strict \in BOOLEAN}

Issue(path, message) == [path |-> path, message |-> message]

HasKey(frontMatter, key) == \E i \in 1..Len(frontMatter) : frontMatter[i].key = key

ValueAt(frontMatter, key) ==
    frontMatter[CHOOSE i \in 1..Len(frontMatter) : frontMatter[i].key = key].value

\* the type a Zod field parser reports for a value
ParsedType(value) ==
    IF value.kind = "date" /\ value.time = <<>> THEN "invalid date" ELSE value.kind

\* the issues one declared field raises on the front matter
FieldIssues(field, frontMatter) ==
    IF ~HasKey(frontMatter, field.key) THEN <<Issue(<<field.key>>, "Required")>>
    ELSE IF ParsedType(ValueAt(frontMatter, field.key)) # field.kind
         THEN <<Issue(<<field.key>>, "Invalid type")>>
    ELSE <<>>

RECURSIVE FieldsIssues(_, _)
FieldsIssues(fields, frontMatter) ==
    IF fields = <<>> THEN <<>>
    ELSE FieldIssues(Head(fields), frontMatter) \o FieldsIssues(Tail(fields), frontMatter)

DeclaredKeys(sch) == {sch.fields[i].key : i \in 1..Len(sch.fields)}

\* a strict schema raises one issue, at the root path, for all undeclared keys
UnrecognizedIssues(sch, frontMatter) ==
    IF sch.strict /\ \E i \in 1..Len(frontMatter) : frontMatter[i].key \notin DeclaredKeys(sch)
    THEN <<Issue(<<>>, "Unrecognized key(s) in object")>>
    ELSE <<>>

\* result.data: the declared fields only, in declaration order
Narrowed(sch, frontMatter) ==
    [i \in 1..Len(sch.fields) |->
        [key |-> sch.fields[i].key, value |-> ValueAt(frontMatter, sch.fields[i].key)]]

\* schema.safeParse(frontMatter)
safeParse(sch, frontMatter) ==
    LET issues == FieldsIssues(sch.fields, frontMatter) \o UnrecognizedIssues(sch, frontMatter)
    IN  IF issues = <<>>
        THEN [success |-> TRUE, data |-> Narrowed(sch, frontMatter), issues |-> <<>>]
        ELSE [success |-> FALSE, data |-> <<>>, issues |-> issues]

\* the front matters and bodies the documents of InitValidate are made of
SomeDate == DateValue(<<2025, 11, 15, 0, 0>>, "utc")

FrontMatters ==
    { <<[key |-> Chars("t"), value |-> StringValue(Chars("x"))],
        [key |-> Chars("d"), value |-> SomeDate]>>,
      <<[key |-> Chars("t"), value |-> StringValue(Chars("x"))],
        [key |-> Chars("k"), value |-> NullValue],
        [key |-> Chars("d"), value |-> SomeDate]>>,
      <<[key |-> Chars("d"), value |-> InvalidDate]>> }

Contents == {Chars("hello"), <<>>}

DirentNames == 1..2

MarkdownFileResult(dirent, frontMatter, content) ==
    [dirent |-> dirent, markdownObject |-> [frontMatter |-> frontMatter, content |-> content]]

Documents ==
    {MarkdownFileResult(Dirent(n, "posts"), fm, c) :
        n \in DirentNames, fm \in FrontMatters, c \in Contents}

\* the lines of validationErrors, kept as their parts
ReportLine(line, filename, path, message) ==
    [line |-> line, filename |-> filename, path |-> path, message |-> message]

\* `Frontmatter Validation Errors  ${date} ${time}`: the time of the run is left out
TitleLine == ReportLine("Frontmatter Validation Errors", <<>>, <<>>, "")

\* `\nFilename: ${fullFilename}`
FilenameLine(fullFilename) == ReportLine("Filename", fullFilename, <<>>, "")

\* `    Error: ${issue.path.join(".")}: ${issue.message}`
ErrorLine(issue) == ReportLine("Error", <<>>, Flatten(issue.path, <<".">>), issue.message)

InitValidate ==
    /\ engine = "strict"
    /\ objects \in UNION {[1..n -> Documents] : n \in 0..MaxObjects}
    /\ schema \in Schemas
    /\ inputObjects = objects
    /\ vpc = "loop" /\ objIndex = 0
    /\ validationErrors = <<>> /\ validatedObjects = <<>>
    /\ filesFound = Len(objects) /\ filesValid = 0 /\ previousFilename = <<>>
    /\ ParseIdle /\ BatchIdle /\ DatesIdle /\ WriteIdle /\ LibIdle

\* faulty variant: the header is pushed before every issue
RECURSIVE IssueLines_HeaderPerIssue(_, _, _)
IssueLines_HeaderPerIssue(issues, fullFilename, previous) ==
    IF issues = <<>> THEN <<>>
    ELSE <<FilenameLine(fullFilename), ErrorLine(Head(issues))>>
         \o IssueLines_HeaderPerIssue(Tail(issues), fullFilename, fullFilename)

\* result.error.issues.forEach: the lines the issues of one document add
RECURSIVE IssueLines(_, _, _)
IssueLines(issues, fullFilename, previous) ==
    IF issues = <<>> THEN <<>>
    ELSE (IF fullFilename # previous THEN <<FilenameLine(fullFilename)>> ELSE <<>>)
         \o <<ErrorLine(Head(issues))>>
         \o IssueLines(Tail(issues), fullFilename, fullFilename)

\* faulty variant: a passing document is pushed but not counted
PushValidated_NoCount(o, r) ==
    /\ filesValid' = filesValid
    /\ validatedObjects' = Append(validatedObjects,
           MarkdownFileResult(o.dirent, r.data, o.markdownObject.content))
    /\ UNCHANGED <<validationErrors, previousFilename>>

\* faulty variant: a passing document is put at the head of validatedObjects
PushValidated_Unshift(o, r) ==
    /\ filesValid' = filesValid + 1
    /\ validatedObjects' =
           <<MarkdownFileResult(o.dirent, r.data, o.markdownObject.content)>>
               \o validatedObjects
    /\ UNCHANGED <<validationErrors, previousFilename>>

\* the else branch of the callback: the document passed
PushValidated(o, r) ==
    /\ filesValid' = filesValid + 1
    /\ validatedObjects' = Append(validatedObjects,
           MarkdownFileResult(o.dirent, r.data, o.markdownObject.content))
    /\ UNCHANGED <<validationErrors, previousFilename>>

\* the then branch of the callback: the document failed
PushErrors(o, r) ==
    LET fullFilename == FullFilename(o.dirent)
    IN  /\ validationErrors' =
               validationErrors \o IssueLines(r.issues, fullFilename, previousFilename)
        /\ previousFilename' = IF r.issues = <<>> THEN previousFilename ELSE fullFilename
        /\ UNCHANGED <<filesValid, validatedObjects>>

\* one call of the objects.forEach callback
ValidateObject ==
    /\ vpc = "loop" /\ objIndex < Len(objects)
    /\ LET o == objects[objIndex + 1]
           r == safeParse(schema, o.markdownObject.frontMatter)
       IN  IF ~r.success THEN PushErrors(o, r) ELSE PushValidated(o, r)
    /\ objIndex' = objIndex + 1
    /\ UNCHANGED <<engine, objects, schema, inputObjects, vpc, filesFound,
                   parseVars, batchVars, dateVars, writeVars, libVars>>

\* faulty variant: the title line is put first even when nothing was collected
ReturnValidState_AlwaysTitle ==
    /\ vpc = "loop" /\ objIndex = Len(objects)
    /\ validationErrors' = <<TitleLine>> \o validationErrors
    /\ vpc' = "done"
    /\ UNCHANGED <<engine, objects, schema, inputObjects, objIndex, validatedObjects,
                   filesFound, filesValid, previousFilename,
                   parseVars, batchVars, dateVars, writeVars, libVars>>

\* after the loop: the title line is put first when any line was collected; return
ReturnValidState ==
    /\ vpc = "loop" /\ objIndex = Len(objects)
    /\ validationErrors' =
           IF Len(validationErrors) > 0 THEN <<TitleLine>> \o validationErrors
           ELSE validationErrors
    /\ vpc' = "done"
    /\ UNCHANGED <<engine, objects, schema, inputObjects, objIndex, validatedObjects,
                   filesFound, filesValid, previousFilename,
                   parseVars, batchVars, dateVars, writeVars, libVars>>

NextValidate == ValidateObject \/ ReturnValidState

SpecValidate == InitValidate /\ [][NextValidate]_vars

(* ------------------ date.ts: convertFrontmatterDateStrings ------------- *)

\* dateOnlyPattern.test(value) for /^\d{4}-\d{2}-\d{2}$/
MatchesDateOnly(s) == Len(s) = 10 /\ MatchesDatePattern(s)

\* dateTimePattern.test(value) for /^\d{4}-\d{2}-\d{2} \d{2}:\d{2}$/
MatchesDateTime(s) == Len(s) = 16 /\ MatchesDatePattern(s)

\* faulty variant: no typeof check, so a nested value that reads as a date is replaced
ConvertDateString_AnyKind(value, eng) ==
    IF MatchesDateOnly(value.chars) \/ MatchesDateTime(value.chars)
    THEN LET dateString == IF MatchesDateOnly(value.chars)
                           THEN value.chars \o Chars("T00:00:00")
                           ELSE value.chars
             dateValue == NewDate(dateString, eng)
         IN  IF dateValue.time = <<>>
             THEN [value |-> value, warned |-> TRUE]
             ELSE [value |-> dateValue, warned |-> FALSE]
    ELSE [value |-> value, warned |-> FALSE]

\* the body of the for loop for one value: the value stored, and whether it warned
ConvertDateString(value, eng) ==
    IF value.kind = "string"
       /\ (MatchesDateOnly(value.chars) \/ MatchesDateTime(value.chars))
    THEN LET dateString == IF MatchesDateOnly(value.chars)
                           THEN value.chars \o Chars("T00:00:00")
                           ELSE value.chars
             dateValue == NewDate(dateString, eng)
         IN  IF dateValue.time = <<>>
             THEN [value |-> value, warned |-> TRUE]
             ELSE [value |-> dateValue, warned |-> FALSE]
    ELSE [value |-> value, warned |-> FALSE]

\* the day before and the day after a calendar day
PreviousDay(y, m, d) ==
    IF d > 1 THEN <<y, m, d - 1>>
    ELSE IF m > 1 THEN <<y, m - 1, DaysInMonth(y, m - 1)>>
    ELSE <<y - 1, 12, 31>>

NextDay(y, m, d) ==
    IF d < DaysInMonth(y, m) THEN <<y, m, d + 1>>
    ELSE IF m < 12 THEN <<y, m + 1, 1>>
    ELSE <<y + 1, 1, 1>>

\* the UTC fields <<year, month, day, hour, minute>> of a valid Date on a host
\* whose zone is tz minutes east of UTC
UTCFields(date, tz) ==
    IF date.zone = "utc" THEN date.time
    ELSE LET t == date.time
             minutes == t[4] * 60 + t[5] - tz
             day == IF minutes < 0 THEN PreviousDay(t[1], t[2], t[3])
                    ELSE IF minutes >= 1440 THEN NextDay(t[1], t[2], t[3])
                    ELSE <<t[1], t[2], t[3]>>
             inDay == (minutes + 1440) % 1440
         IN  <<day[1], day[2], day[3], inDay \div 60, inDay % 60>>

DigitChar(n) == CHOOSE c \in Digits : DigitVal[c] = n

\* String(n) of a natural number
RECURSIVE NumberToString(_)
NumberToString(n) ==
    IF n < 10 THEN <<DigitChar(n)>> ELSE NumberToString(n \div 10) \o <<DigitChar(n % 10)>>

\* s.padStart(n, c)
RECURSIVE padStart(_, _, _)
padStart(s, n, c) == IF Len(s) >= n THEN s ELSE padStart(<<c>> \o s, n, c)

\* convertDateToStringYYYY_MM_DD(date) of a valid Date, on a host at tz
convertDateToStringYYYY_MM_DD(date, tz) ==
    LET utc == UTCFields(date, tz)
        year == NumberToString(utc[1])
        month == padStart(NumberToString(utc[2]), 2, "0")
        day == padStart(NumberToString(utc[3]), 2, "0")
    IN  year \o <<"-">> \o month \o <<"-">> \o day

\* the hosts' zones, in minutes east of UTC
TzOffsets == {0 - 300, 0, 60, 330}

\* the values and keys the mappings of InitDates are made of
DateTexts ==
    {"2025-11-15", "2024-02-29", "2025-03-01", "0999-12-31", "2025-99-99", "2025-02-30",
     "2025-11-15 10:30", "2025-11-15 25:00", "hello"}

DateInputs ==
    {StringValue(Chars(t)) : t \in DateTexts}
        \cup {NullValue, NestedValue(Chars("2025-11-15"))}

Keys == <<Chars("t"), Chars("d"), Chars("k")>>

Mappings ==
    UNION {{[i \in 1..n |-> [key |-> Keys[i], value |-> v[i]]] : v \in [1..n -> DateInputs]} :
              n \in 0..MaxKeys}

InitDates ==
    /\ engine \in Engines
    /\ tzOffset \in TzOffsets
    /\ obj \in Mappings
    /\ inputObj = obj
    /\ dpc = "loop" /\ entryIndex = 0
    /\ dateResult = obj
    /\ warnings = <<>> /\ formatted = <<>>
    /\ ParseIdle /\ BatchIdle /\ ValidateIdle /\ WriteIdle /\ LibIdle

\* one iteration of for (const [key, value] of Object.entries(result))
ConvertEntry ==
    /\ dpc = "loop" /\ entryIndex < Len(dateResult)
    /\ LET e == dateResult[entryIndex + 1]
           c == ConvertDateString(e.value, engine)
       IN  /\ dateResult' = [dateResult EXCEPT ![entryIndex + 1].value = c.value]
           /\ warnings' = IF c.warned THEN Append(warnings, e.key) ELSE warnings
    /\ entryIndex' = entryIndex + 1
    /\ UNCHANGED <<engine, tzOffset, obj, inputObj, dpc, formatted,
                   parseVars, batchVars, validateVars, writeVars, libVars>>

\* return result
ReturnResult ==
    /\ dpc = "loop" /\ entryIndex = Len(dateResult)
    /\ dpc' = "returned"
    /\ UNCHANGED <<engine, tzOffset, obj, inputObj, entryIndex, dateResult, warnings,
                   formatted, parseVars, batchVars, validateVars, writeVars, libVars>>

\* the caller formats every Date of the result with convertDateToStringYYYY_MM_DD
FormatDates ==
    /\ dpc = "returned"
    /\ formatted' = [i \in 1..Len(dateResult) |->
           IF dateResult[i].value.kind = "date"
           THEN convertDateToStringYYYY_MM_DD(dateResult[i].value, tzOffset)
           ELSE <<>>]
    /\ dpc' = "formatted"
    /\ UNCHANGED <<engine, tzOffset, obj, inputObj, entryIndex, dateResult, warnings,
                   parseVars, batchVars, validateVars, writeVars, libVars>>

NextDates == ConvertEntry \/ ReturnResult \/ FormatDates

SpecDates == InitDates /\ [][NextDates]_vars

(* ------------------ date.ts: convertStringYYYY_MM_DDToDate ------------- *)

\* faulty variant: a day past the month's end is kept as it is
DateUTC_NoRollOver(year, month, day) ==
    DateValue(<<IF year \in 0..99 THEN 1900 + year ELSE year, month, day, 0, 0>>, "utc")

\* new Date(Date.UTC(year, month - 1, day)) for month in 1..12 and day in 1..31: a
\* year from 0 to 99 is taken as 1900 + year, a day past the month's end rolls over
DateUTC(year, month, day) ==
    LET fullYear == IF year \in 0..99 THEN 1900 + year ELSE year
    IN  IF day <= DaysInMonth(fullYear, month)
        THEN DateValue(<<fullYear, month, day, 0, 0>>, "utc")
        ELSE DateValue(<<fullYear, month + 1, day - DaysInMonth(fullYear, month), 0, 0>>, "utc")

\* convertStringYYYY_MM_DDToDate(dateString): the message of the Error thrown, or ""
\* and the Date returned
convertStringYYYY_MM_DDToDate(value) ==
    LET trimmed == Trim(value.chars)
        year == ToInt(SubSeq(trimmed, 1, 4))
        month == ToInt(SubSeq(trimmed, 6, 7))
        day == ToInt(SubSeq(trimmed, 9, 10))
        date == DateUTC(year, month, day)
        error ==
            IF value.kind # "string" THEN "Input must be a string"
            ELSE IF ~MatchesDateOnly(trimmed) THEN "Invalid date format"
            ELSE IF month < 1 \/ month > 12 THEN "Invalid month"
            ELSE IF day < 1 \/ day > 31 THEN "Invalid day"
            ELSE IF date.time = <<>> THEN "Invalid date"
            ELSE IF date.time[1] # year \/ date.time[2] # month \/ date.time[3] # day
                 THEN "Date does not exist in the calendar"
            ELSE ""
    IN  [error |-> error, date |-> IF error = "" THEN date ELSE InvalidDate]

InitToDate ==
    /\ engine \in Engines
    /\ dateStringArg \in
           {StringValue(Chars(y) \o <<"-">> \o Chars(m) \o <<"-">> \o Chars(d)) :
               y \in {"2025", "2024", "2023", "0999", "0050"},
               m \in {"00", "02", "04", "12", "13"},
               d \in {"00", "15", "29", "30", "31", "32"}}
           \cup {StringValue(Chars(t)) :
                   t \in {"11-15-2025", " 2025-11-15 ", "2025-11-15 10:30", "hello", ""}}
           \cup {NullValue, NestedValue(Chars("2025-11-15"))}
    /\ converted = [error |-> "", date |-> InvalidDate] /\ reformatted = <<>>
    /\ cpc = "call"
    /\ arr = <<>> /\ rowCount = 0 /\ pageSize = 0 /\ totalPages = 0
    /\ opc = "idle" /\ outcome = NoOutcome
    /\ ParseIdle /\ BatchIdle /\ ValidateIdle /\ DatesIdle /\ WriteIdle

\* the call returns or throws
ConvertString ==
    /\ cpc = "call"
    /\ converted' = convertStringYYYY_MM_DDToDate(dateStringArg)
    /\ cpc' = IF converted'.error # "" THEN "threw" ELSE "returned"
    /\ UNCHANGED <<engine, dateStringArg, reformatted, arr, rowCount, pageSize, totalPages,
                   opc, outcome, parseVars, batchVars, validateVars, dateVars,
                   writeVars>>

\* the caller formats the Date with convertDateToStringYYYY_MM_DD
FormatConverted ==
    /\ cpc = "returned"
    /\ reformatted' = convertDateToStringYYYY_MM_DD(converted.date, tzOffset)
    /\ cpc' = "formatted"
    /\ UNCHANGED <<engine, dateStringArg, converted, arr, rowCount, pageSize, totalPages,
                   opc, outcome, parseVars, batchVars, validateVars, dateVars,
                   writeVars>>

NextToDate == ConvertString \/ FormatConverted

SpecToDate == InitToDate /\ [][NextToDate]_vars

(* ---------------------- objects.ts and math.ts ------------------------- *)

\* faulty variant: the quotient is rounded toward zero
divideWithRemainder_Truncates(quotient, divisor) ==
    LET absQ == IF quotient < 0 THEN 0 - quotient ELSE quotient
        absD == IF divisor < 0 THEN 0 - divisor ELSE divisor
        truncated == IF (quotient < 0) = (divisor < 0) THEN absQ \div absD
                     ELSE 0 - (absQ \div absD)
    IN  [quotient |-> truncated, remainder |-> quotient - divisor * truncated]

\* divideWithRemainder(quotient, divisor) for integers, divisor not 0:
\* Math.floor(quotient / divisor), and the % of JavaScript, which truncates
divideWithRemainder(quotient, divisor) ==
    LET absQ == IF quotient < 0 THEN 0 - quotient ELSE quotient
        absD == IF divisor < 0 THEN 0 - divisor ELSE divisor
        truncated == IF (quotient < 0) = (divisor < 0) THEN absQ \div absD
                     ELSE 0 - (absQ \div absD)
        remainder == quotient - divisor * truncated
    IN  [quotient |-> IF remainder # 0 /\ (quotient < 0) # (divisor < 0)
                      THEN truncated - 1 ELSE truncated,
         remainder |-> remainder]

\* a.slice(start, end) for 0 <= start: the rows at indices start .. end - 1 that exist
slice(a, start, end) ==
    LET to == IF end > Len(a) THEN Len(a) ELSE end
    IN  IF start >= to THEN <<>> ELSE SubSeq(a, start + 1, to)

\* getPagedData(allObjects, pageSize, pageNumber)
getPagedData(allObjects, size, pageNumber) ==
    LET startIndex == (pageNumber - 1) * size
        endIndex == startIndex + size
        pageCount == divideWithRemainder(Len(allObjects), 10)
        lastPage == IF pageCount.remainder = 0 THEN pageCount.quotient
                    ELSE pageCount.quotient + 1
    IN  [pagedData |-> slice(allObjects, startIndex, endIndex),
         pageNumber |-> pageNumber,
         isFirstPage |-> pageNumber = 1,
         isLastPage |-> pageNumber = lastPage,
         totalPages |-> (Len(allObjects) + size - 1) \div size,
         rowsReturned |-> Len(allObjects)]

\* Pager.#getTotalPages
getTotalPages(rows, size) == IF rows = 0 THEN 0 ELSE (rows + size - 1) \div size

isValidPage(pageNumber) == pageNumber >= 1 /\ pageNumber <= totalPages

hasNextPage(pageNumber) == pageNumber < totalPages

hasPrevPage(pageNumber) == pageNumber > 1

\* faulty variant: the last index is not brought back into the array
getBoundingRowsForPage_NoClip(pageNumber) ==
    [first |-> pageNumber * pageSize - pageSize, last |-> pageNumber * pageSize - 1]

\* Pager.getBoundingRowsForPage of a valid page, with #getBoundingRowsForPage inside
getBoundingRowsForPage(pageNumber) ==
    LET last == pageNumber * pageSize - 1
    IN  [first |-> last - pageSize + 1,
         last |-> IF last >= rowCount THEN rowCount - 1 ELSE last]

\* faulty variant: the last page but one already has no next page
getPrevAndNextPage_NextOffByOne(currentPageNumber) ==
    [previous |-> IF currentPageNumber - 1 = 0 THEN 0 - 1 ELSE currentPageNumber - 1,
     next |-> IF currentPageNumber + 1 >= totalPages THEN 0 - 1 ELSE currentPageNumber + 1]

\* Pager.#getPrevAndNextPage
getPrevAndNextPage(currentPageNumber) ==
    [previous |-> IF currentPageNumber - 1 = 0 THEN 0 - 1 ELSE currentPageNumber - 1,
     next |-> IF currentPageNumber + 1 > totalPages THEN 0 - 1 ELSE currentPageNumber + 1]

\* Pager.getRowsForPage: threw is the RangeError
getRowsForPage(pageNumber) ==
    IF ~isValidPage(pageNumber) THEN [threw |-> TRUE, value |-> <<>>]
    ELSE LET boundingRows == getBoundingRowsForPage(pageNumber)
             pn == getPrevAndNextPage(pageNumber)
         IN  [threw |-> FALSE,
              value |-> [dataRows |-> slice(arr, boundingRows.first, boundingRows.last + 1),
                         prevPageNumber |-> pn.previous,
                         nextPageNumber |-> pn.next,
                         currentPage |-> pageNumber,
                         totalPages |-> totalPages,
                         hasNext |-> pn.next # 0 - 1,
                         hasPrev |-> pn.previous # 0 - 1,
                         startIndex |-> boundingRows.first,
                         endIndex |-> boundingRows.last]]

\* Pager.getAllPages
getAllPages == [i \in 1..totalPages |-> getRowsForPage(i).value]

\* new Pager(arr, pageSize) has returned
InitObjects ==
    /\ engine \in Engines
    /\ arr \in UNION {[1..n -> {"a", "b"}] : n \in 0..MaxRows}
    /\ rowCount = Len(arr)
    /\ pageSize \in 1..MaxPageSize
    /\ totalPages = getTotalPages(rowCount, pageSize)
    /\ opc = "ready" /\ outcome = NoOutcome
    /\ dateStringArg = NullValue /\ cpc = "idle"
    /\ converted = [error |-> "", date |-> InvalidDate] /\ reformatted = <<>>
    /\ ParseIdle /\ BatchIdle /\ ValidateIdle /\ DatesIdle /\ WriteIdle

CallGetRowsForPage ==
    /\ opc = "ready"
    /\ \E p \in (0 - 1)..(MaxRows + 1) :
          LET r == getRowsForPage(p)
          IN  outcome' = [call |-> "getRowsForPage", args |-> <<p>>,
                          threw |-> r.threw, value |-> r.value]
    /\ opc' = "done"
    /\ UNCHANGED <<engine, arr, rowCount, pageSize, totalPages, dateStringArg, converted,
                   reformatted, cpc, parseVars, batchVars, validateVars, dateVars, writeVars>>

CallGetAllPages ==
    /\ opc = "ready"
    /\ outcome' = [call |-> "getAllPages", args |-> <<>>, threw |-> FALSE,
                   value |-> getAllPages]
    /\ opc' = "done"
    /\ UNCHANGED <<engine, arr, rowCount, pageSize, totalPages, dateStringArg, converted,
                   reformatted, cpc, parseVars, batchVars, validateVars, dateVars, writeVars>>

\* getPagedData on the same array, with a page size and a page number from 1 on
CallGetPagedData ==
    /\ opc = "ready"
    /\ \E size \in 1..MaxPageSize, p \in 1..(MaxRows + 1) :
          outcome' = [call |-> "getPagedData", args |-> <<size, p>>, threw |-> FALSE,
                      value |-> getPagedData(arr, size, p)]
    /\ opc' = "done"
    /\ UNCHANGED <<engine, arr, rowCount, pageSize, totalPages, dateStringArg, converted,
                   reformatted, cpc, parseVars, batchVars, validateVars, dateVars, writeVars>>

CallDivideWithRemainder ==
    /\ opc = "ready"
    /\ \E a \in (0 - MaxDividend)..MaxDividend,
          b \in ((0 - MaxDivisor)..MaxDivisor) \ {0} :
          outcome' = [call |-> "divideWithRemainder", args |-> <<a, b>>, threw |-> FALSE,
                      value |-> divideWithRemainder(a, b)]
    /\ opc' = "done"
    /\ UNCHANGED <<engine, arr, rowCount, pageSize, totalPages, dateStringArg, converted,
                   reformatted, cpc, parseVars, batchVars, validateVars, dateVars, writeVars>>

NextObjects ==
    CallGetRowsForPage \/ CallGetAllPages \/ CallGetPagedData \/ CallDivideWithRemainder

SpecObjects == InitObjects /\ [][NextObjects]_vars

(* --------------------------- writeMarkdownFile ------------------------- *)

\* date.toISOString() of a valid Date, on a host at tz
toISOString(date, tz) ==
    LET utc == UTCFields(date, tz)
    IN  padStart(NumberToString(utc[1]), 4, "0") \o <<"-">>
        \o padStart(NumberToString(utc[2]), 2, "0") \o <<"-">>
        \o padStart(NumberToString(utc[3]), 2, "0") \o <<"T">>
        \o padStart(NumberToString(utc[4]), 2, "0") \o <<":">>
        \o padStart(NumberToString(utc[5]), 2, "0") \o <<":", "0", "0", ".", "0", "0", "0", "Z">>

\* how yaml.dump writes a scalar: a string that would read back as another type is
\* put in single quotes
DumpScalar(value, tz) ==
    CASE value.kind = "null" -> <<"n", "u", "l", "l">>
      [] value.kind = "date" -> toISOString(value, tz)
      [] value.kind = "string" ->
            IF value.chars = <<>> \/ value.chars = <<"~">> \/ MatchesDateOnly(value.chars)
            THEN <<"'">> \o value.chars \o <<"'">>
            ELSE value.chars

\* yaml.dump(frontMatter, { sortKeys: false, ... }): one "key: value" line per entry,
\* in insertion order, each ended by a line feed
RECURSIVE yamlDump(_, _)
yamlDump(frontMatter, tz) ==
    IF frontMatter = <<>> THEN <<>>
    ELSE Head(frontMatter).key \o <<":", " ">> \o DumpScalar(Head(frontMatter).value, tz)
         \o <<LF>> \o yamlDump(Tail(frontMatter), tz)

\* faulty variant: the delimiters are written for an empty mapping too
MarkdownContent_NoEmptyCheck(doc, tz) ==
    LET block == Chars("---") \o <<LF>> \o yamlDump(doc.frontMatter, tz) \o Chars("---")
    IN  IF doc.content # <<>> THEN block \o <<LF>> \o doc.content ELSE block

\* the text writeMarkdownFile builds in markdownContent
MarkdownContent(doc, tz) ==
    LET block == IF Len(doc.frontMatter) > 0
                 THEN Chars("---") \o <<LF>> \o yamlDump(doc.frontMatter, tz) \o Chars("---")
                 ELSE <<>>
    IN  IF doc.content # <<>>
        THEN (IF block # <<>> THEN block \o <<LF>> ELSE block) \o doc.content
        ELSE block

\* the documents InitWrite enumerates
ParsedMarkdown(frontMatter, content) == [frontMatter |-> frontMatter, content |-> content]

WriteFrontMatters ==
    { <<>>,
      <<[key |-> Chars("t"), value |-> StringValue(Chars("x"))]>>,
      <<[key |-> Chars("t"), value |-> StringValue(Chars("x"))],
        [key |-> Chars("d"), value |-> StringValue(Chars("2025-11-15"))]>>,
      <<[key |-> Chars("k"), value |-> NullValue]>>,
      <<[key |-> Chars("d"), value |-> SomeDate]>> }

BodyVocabulary == {"hello", "---", "", "t: x"}

Bodies ==
    {Flatten([i \in 1..Len(lines) |-> Chars(lines[i])], <<LF>>) :
        lines \in UNION {[1..n -> BodyVocabulary] : n \in 0..MaxBodyLines}}

InitWrite ==
    /\ engine \in Engines
    /\ parsedMarkdown \in {ParsedMarkdown(fm, c) : fm \in WriteFrontMatters, c \in Bodies}
    /\ disk \in {[writable |-> w, written |-> FALSE, text |-> <<>>] : w \in BOOLEAN}
    /\ wpc = "write"
    /\ ParseIdle /\ BatchIdle /\ ValidateIdle /\ DatesIdle /\ LibIdle

\* await fsa.writeFile(outputFilename, markdownContent, "utf-8") resolves
WriteFileResolves ==
    /\ wpc = "write" /\ disk.writable
    /\ disk' = [disk EXCEPT !.written = TRUE,
                            !.text = MarkdownContent(parsedMarkdown, tzOffset)]
    /\ wpc' = "resolved"
    /\ UNCHANGED <<engine, parsedMarkdown, parseVars, batchVars, validateVars, dateVars, libVars>>

\* it rejects: the catch block throws "Failed to write markdown file ..."
WriteFileRejects ==
    /\ wpc = "write" /\ ~disk.writable
    /\ wpc' = "rejected"
    /\ UNCHANGED <<engine, parsedMarkdown, disk, parseVars, batchVars, validateVars, dateVars, libVars>>

\* the caller reads the file back: parseMarkdownFile on the text that was written
ParseWritten ==
    /\ wpc = "resolved" /\ pc = "idle"
    /\ result' = ParseText(disk.text, TheFilename, engine)
    /\ pc' = "resolved"
    /\ UNCHANGED <<engine, file, fileLines, lineIndex, frontMatterLines, contentLines,
                   frontMatterDelimiterCount, inFrontMatter, batchVars, utilVars>>

NextWrite == WriteFileResolves \/ WriteFileRejects \/ ParseWritten

SpecWrite == InitWrite /\ [][NextWrite]_vars

(* ======================= properties: one file ========================== *)
(* Stated on the file as it is on disk (its lines, before any splitting or *)
(* trimming) and on what parseMarkdownFile returned.                       *)

\* the lines of the vocabulary whose trimmed text is ---
DelimiterTexts == {"---", " --- "}

\* the lines of the vocabulary that are empty after trimming
BlankTexts == {" "}

DelimiterAt == {i \in 1..Len(file.lines) : file.lines[i] \in DelimiterTexts}

NumDelimiters == Cardinality(DelimiterAt)

\* the position of the n-th delimiter line of the file
NthDelimiter(n) ==
    CHOOSE i \in DelimiterAt : Cardinality({j \in DelimiterAt : j <= i}) = n

\* the text of lines from..to of the file, one element per line
LinesOfFile(from, to) == [k \in 1..(to - from + 1) |-> Chars(file.lines[from + k - 1])]

LinesAfter(i) == LinesOfFile(i + 1, Len(file.lines))

\* the lines between the first delimiter and the second (or the end of the file)
BlockLines ==
    IF NumDelimiters = 0 THEN <<>>
    ELSE IF NumDelimiters = 1 THEN LinesAfter(NthDelimiter(1))
    ELSE LinesOfFile(NthDelimiter(1) + 1, NthDelimiter(2) - 1)

BlockIsBlank ==
    \A i \in 1..Len(BlockLines) : \A k \in 1..Len(BlockLines[i]) : BlockLines[i][k] = " "

\* what the YAML decoder makes of the block
BlockDecoded == yamlLoad(Trim(Flatten(BlockLines, <<LF>>)))

EndsWith(s, t) == Len(s) >= Len(t) /\ SubSeq(s, Len(s) - Len(t) + 1, Len(s)) = t

RECURSIVE IsSubsequence(_, _)
\* s can be obtained from t by deleting elements
IsSubsequence(s, t) ==
    IF Len(s) = 0 THEN TRUE
    ELSE IF Len(t) = 0 THEN FALSE
    ELSE IF s[1] = t[1] THEN IsSubsequence(Tail(s), Tail(t))
    ELSE IsSubsequence(s, Tail(t))

\* whether the date-shaped string names a date of the calendar (and a time of the day)
IsCalendarDate(s) ==
    LET y == ToInt(SubSeq(s, 1, 4))
        m == ToInt(SubSeq(s, 6, 7))
        d == ToInt(SubSeq(s, 9, 10))
    IN  /\ m \in 1..12
        /\ d \in 1..DaysInMonth(y, m)
        /\ Len(s) = 16 => (ToInt(SubSeq(s, 12, 13)) <= 23 /\ ToInt(SubSeq(s, 15, 16)) <= 59)

Returned == pc = "resolved"

\* C2: a 3rd or later --- line after the closing delimiter is ordinary body text: the
\* body buffer, and the returned content, end with every line that follows the 2nd
\* delimiter, delimiter-looking lines included, in file order.
C2_LaterDelimiterIsBodyText ==
    (Returned /\ NumDelimiters >= 3 /\ result.success) =>
        /\ EndsWith(contentLines, LinesAfter(NthDelimiter(2)))
        /\ EndsWith(result.data.content, Flatten(LinesAfter(NthDelimiter(2)), <<LF>>))

C4_NoBlockIsFixedFailure ==
    (Returned /\ (NumDelimiters = 0 \/ BlockIsBlank)) =>
        /\ DOMAIN result = {"success", "error", "filename"}
        /\ ~result.success
        /\ result.error = "Failed to parse frontmatter"
        /\ result.filename = TheFilename

C4_Witness ==
    /\ Returned /\ NumDelimiters = 2 /\ Len(BlockLines) = 1 /\ BlockIsBlank
    /\ Len(LinesAfter(NthDelimiter(2))) = 1
    /\ ~result.success

\* C5: a block that decodes to null, a scalar or a sequence gives Success with the
\* empty mapping as frontMatter.
C5_NonMapIsEmptyMapping ==
    (Returned /\ ~BlockIsBlank /\ BlockDecoded.kind \in {"null", "scalar", "sequence"}) =>
        /\ result.success
        /\ result.data.frontMatter = <<>>

\* C7: a top-level string of the date shape that names no calendar date stays the
\* original string in the result, and the document is a Success.
C7_InvalidDateStaysString ==
    (Returned /\ ~BlockIsBlank /\ BlockDecoded.kind = "mapping") =>
        /\ result.success
        /\ Len(result.data.frontMatter) = Len(BlockDecoded.entries)
        /\ \A i \in 1..Len(BlockDecoded.entries) :
              LET v == BlockDecoded.entries[i].value
              IN  (v.kind = "string" /\ MatchesDatePattern(v.chars) /\ ~IsCalendarDate(v.chars))
                    => result.data.frontMatter[i] = BlockDecoded.entries[i]

\* exactly two delimiter lines, the first one on line 1, around a non-empty mapping
WellFormed ==
    /\ NumDelimiters = 2 /\ NthDelimiter(1) = 1
    /\ BlockDecoded.kind = "mapping" /\ Len(BlockDecoded.entries) > 0

\* C8: exactly two delimiter lines, the first one the first line of the file, and a block
\* that decodes to a non-empty mapping: Success, a non-empty frontMatter, and content
\* equal to the lines after the second delimiter, in order, joined by newline.
C8_WellFormedFileParses ==
    (Returned /\ WellFormed) =>
        /\ result.success
        /\ Len(result.data.frontMatter) > 0
        /\ result.data.content = Flatten(LinesAfter(NthDelimiter(2)), <<LF>>)

C8_Witness ==
    /\ Returned /\ WellFormed /\ file.eol = "CRLF"
    /\ Len(LinesAfter(NthDelimiter(2))) = 1
    /\ result.success /\ Len(result.data.content) > 1

\* C9: on every Success, content is made only of lines that follow the second delimiter
\* line; no line from before the first delimiter is in it.
C9_ContentFollowsSecondDelimiter ==
    (Returned /\ result.success) =>
        /\ IsSubsequence(contentLines,
                         IF NumDelimiters >= 2 THEN LinesAfter(NthDelimiter(2)) ELSE <<>>)
        /\ result.data.content = Flatten(contentLines, <<LF>>)

(* ======================= properties: a directory ======================= *)

NumFiles == Len(folder.files)

AllTasksSettled ==
    /\ batch \notin {"start", "awaiting"}
    /\ \A i \in 1..Len(tasks) : tasks[i] # "reading"

\* the entries of a list of outcomes that name file i of the directory
EntriesOf(list, i) == {j \in 1..Len(list) : list[j].dirent = Dirent(i, "posts")}

\* file i is reported exactly once across the two returned lists
ReportedOnce(i) ==
    Cardinality(EntriesOf(returned.successful, i))
        + Cardinality(EntriesOf(returned.failed, i)) = 1

NamesOf(list) == [j \in 1..Len(list) |-> list[j].dirent.name]

\* C1: a file whose read fails becomes an entry of failed keyed by its path; the
\* batch does not reject, and every file of the directory is in the returned lists.
C1_ReadFailureBecomesFailedEntry ==
    /\ batch # "rejected"
    /\ \A i \in 1..Len(tasks) :
          (tasks[i] # "reading" /\ ~folder.files[i].readable) =>
              \E j \in 1..Len(failed) : failed[j].filename = <<"posts", i>>
    /\ batch = "resolved" => \A i \in 1..NumFiles : ReportedOnce(i)

\* C6: a file with invalid YAML is, once the batch has settled, exactly one entry of
\* failed, with the decoder's message, and no entry of successful; the batch has
\* resolved and every sibling is reported.
C6_InvalidYamlIsOneFailedEntry ==
    \A i \in 1..NumFiles :
        (AllTasksSettled /\ folder.files[i] = InvalidYamlFile) =>
            /\ batch = "resolved"
            /\ \E j \in 1..Len(returned.failed) :
                  /\ EntriesOf(returned.failed, i) = {j}
                  /\ returned.failed[j].filename = <<"posts", i>>
                  /\ returned.failed[j].error = yamlLoad(Chars("k: [")).message
            /\ EntriesOf(returned.successful, i) = {}
            /\ \A k \in 1..NumFiles : ReportedOnce(k)

AllReadable == \A i \in 1..NumFiles : folder.files[i].readable

AllWellFormed == \A i \in 1..NumFiles : folder.files[i] \in {WellFormedFile, DatedFile}

\* C10: with every file readable, in every order of completion: the batch resolves
\* only once every task has completed, each file is then in exactly one of the two
\* lists, each list is in order of completion, and failed is empty when every file
\* is well-formed.
C10_EveryFileReportedOnce ==
    AllReadable =>
        /\ batch # "rejected"
        /\ batch = "resolved" =>
              /\ \A i \in 1..Len(tasks) : tasks[i] = "fulfilled"
              /\ Len(fileInfo) = NumFiles
              /\ Len(returned.successful) + Len(returned.failed) = NumFiles
              /\ \A i \in 1..NumFiles : ReportedOnce(i)
              /\ IsSubsequence(NamesOf(returned.successful), completionOrder)
              /\ IsSubsequence(NamesOf(returned.failed), completionOrder)
              /\ AllWellFormed => returned.failed = <<>>

C10_Witness ==
    /\ batch = "resolved" /\ AllReadable /\ NumFiles = 3
    /\ completionOrder = <<3, 1, 2>>
    /\ NamesOf(returned.successful) = <<3, 2>>
    /\ NamesOf(returned.failed) = <<1>>

\* C11: called on a root directory that does not exist, getMarkdownObjects never
\* rejects: no task is started, and the promise resolves with successful = [] and
\* failed = [].
C11_MissingFolderResolvesEmpty ==
    ~folder.exists =>
        /\ batch # "rejected"
        /\ batch \in {"awaiting", "resolved"} => fileInfo = <<>> /\ tasks = <<>>
        /\ batch = "awaiting" => ENABLED PromiseAllFulfils
        /\ successful = <<>> /\ failed = <<>>
        /\ batch = "resolved" => returned = [successful |-> <<>>, failed |-> <<>>]

C11_Witness == batch = "resolved" /\ ~folder.exists

(* ---------------- properties of validateMarkdownObjects ---------------- *)
(* Stated on the list the function was called with and on the four fields  *)
(* it returns.                                                              *)

\* document i of the argument passes the schema
Passes(i) == safeParse(schema, inputObjects[i].markdownObject.frontMatter).success

PassingUpTo(n) == {i \in 1..n : Passes(i)}

FailingUpTo(n) == {i \in 1..n : ~Passes(i)}

NumObjects == Len(inputObjects)

\* C12: filesFound is the length of the input, filesValid the number of documents
\* that pass, and validatedObjects has filesValid entries; so
\* 0 <= filesValid <= filesFound, with filesValid < filesFound exactly when some
\* document fails.
C12_CountsMatchTheInput ==
    /\ vpc \in {"loop", "done"} =>
          /\ filesFound = NumObjects
          /\ filesValid = Cardinality(PassingUpTo(objIndex))
          /\ Len(validatedObjects) = filesValid
    /\ vpc = "done" =>
          /\ filesValid = Cardinality(PassingUpTo(NumObjects))
          /\ 0 <= filesValid /\ filesValid <= filesFound
          /\ filesValid < filesFound <=> FailingUpTo(NumObjects) # {}

C12_Witness == vpc = "done" /\ filesFound = 3 /\ filesValid = 2

\* the failing documents of the argument, in input order
RECURSIVE FailingFrom(_)
FailingFrom(i) ==
    IF i > NumObjects THEN <<>>
    ELSE (IF Passes(i) THEN <<>> ELSE <<i>>) \o FailingFrom(i + 1)

PathOf(i) == FullFilename(inputObjects[i].dirent)

IssuesOf(i) == safeParse(schema, inputObjects[i].markdownObject.frontMatter).issues

ErrorLinesOf(i) == [k \in 1..Len(IssuesOf(i)) |-> ErrorLine(IssuesOf(i)[k])]

\* validationErrors without the title line
ReportBody == IF validationErrors = <<>> THEN <<>> ELSE Tail(validationErrors)

\* for each failing document: its header, then its error lines
RECURSIVE LinesPerDocument(_)
LinesPerDocument(failing) ==
    IF failing = <<>> THEN <<>>
    ELSE <<FilenameLine(PathOf(Head(failing)))>> \o ErrorLinesOf(Head(failing))
         \o LinesPerDocument(Tail(failing))

\* the same, with the header left out when the failing document before has the path
RECURSIVE LinesPerPath(_, _)
LinesPerPath(failing, previous) ==
    IF failing = <<>> THEN <<>>
    ELSE (IF PathOf(Head(failing)) = previous THEN <<>>
          ELSE <<FilenameLine(PathOf(Head(failing)))>>)
         \o ErrorLinesOf(Head(failing))
         \o LinesPerPath(Tail(failing), PathOf(Head(failing)))

RECURSIVE SumOfIssues(_)
SumOfIssues(failing) ==
    IF failing = <<>> THEN 0 ELSE Len(IssuesOf(Head(failing))) + SumOfIssues(Tail(failing))

\* the failing documents that are the first one or follow one of another path
PathChanges(failing) ==
    {k \in 1..Len(failing) : k = 1 \/ PathOf(failing[k]) # PathOf(failing[k - 1])}

TitleLinesAt == {k \in 1..Len(validationErrors) : validationErrors[k] = TitleLine}

RECURSIVE PassingFrom(_)
PassingFrom(i) ==
    IF i > NumObjects THEN <<>>
    ELSE (IF Passes(i) THEN <<i>> ELSE <<>>) \o PassingFrom(i + 1)

\* C15: the list passed in and its documents are left as they were; validatedObjects
\* holds, in input order, one record per passing document, with that document's
\* dirent and content.
C15_InputKeptAndOrderKept ==
    /\ objects = inputObjects
    /\ vpc = "done" =>
          LET passing == PassingFrom(1)
          IN  /\ Len(validatedObjects) = Len(passing)
              /\ \A k \in 1..Len(passing) :
                    /\ validatedObjects[k].dirent = inputObjects[passing[k]].dirent
                    /\ validatedObjects[k].markdownObject.content =
                           inputObjects[passing[k]].markdownObject.content

C15_Witness ==
    /\ vpc = "done" /\ PassingFrom(1) = <<1, 3>>
    /\ PathOf(1) # PathOf(3)
    /\ inputObjects[1].markdownObject.content # inputObjects[3].markdownObject.content
    /\ Len(validatedObjects) = 2

(* ------------- properties of convertFrontmatterDateStrings ------------- *)

\* entry i of the argument is a string of the date shape
IsDateShaped(i) ==
    /\ inputObj[i].value.kind = "string"
    /\ MatchesDatePattern(inputObj[i].value.chars)

NumKeys == Len(inputObj)

\* C16: a top-level string of the date shape that names no calendar date is left as
\* the original string, with a warning for its key; nothing is thrown, and the other
\* keys are still converted.
C16_NonexistentDateStaysString ==
    dpc \in {"returned", "formatted"} =>
        \A i \in 1..NumKeys :
            IsDateShaped(i) =>
                IF IsCalendarDate(inputObj[i].value.chars)
                THEN dateResult[i].value.kind = "date"
                ELSE /\ dateResult[i].value = inputObj[i].value
                     /\ \E w \in 1..Len(warnings) : warnings[w] = inputObj[i].key

\* C17: the result has the keys of the argument; every value that is not a top-level
\* string of exactly the shape YYYY-MM-DD or YYYY-MM-DD HH:MM is passed through as it
\* is, a nested value that reads as a date included; a string of the shape is replaced
\* by a Date or kept; the argument keeps its values.
C17_OnlyDateShapedStringsChange ==
    /\ obj = inputObj
    /\ dpc # "idle" =>
          /\ Len(dateResult) = NumKeys
          /\ \A i \in 1..NumKeys :
                /\ dateResult[i].key = inputObj[i].key
                /\ ~IsDateShaped(i) => dateResult[i].value = inputObj[i].value
                /\ dateResult[i].value.kind = "date" =>
                      IsDateShaped(i) /\ i <= entryIndex
                /\ dateResult[i].value.kind # "date" =>
                      dateResult[i].value = inputObj[i].value

C17_Witness ==
    /\ dpc = "returned" /\ NumKeys = 2
    /\ inputObj[1].value = NestedValue(Chars("2025-11-15"))
    /\ dateResult[1].value = inputObj[1].value
    /\ inputObj[2].value = StringValue(Chars("2025-11-15"))
    /\ dateResult[2].value.kind = "date"

\* C18: for every date-only string s that names a calendar date, and every zone of
\* the host, formatting the Date that convertFrontmatterDateStrings made of s with
\* convertDateToStringYYYY_MM_DD gives s back.
C18_DateOnlyRoundTrip ==
    dpc = "formatted" =>
        \A i \in 1..NumKeys :
            ( /\ inputObj[i].value.kind = "string"
              /\ MatchesDateOnly(inputObj[i].value.chars)
              /\ IsCalendarDate(inputObj[i].value.chars) )
            => /\ dateResult[i].value.kind = "date"
               /\ formatted[i] = inputObj[i].value.chars

(* -------------------- properties of writeMarkdownFile ------------------ *)

\* C19: a document whose frontMatter is empty is written as its content, character
\* for character: the writer adds no --- line.
C19_EmptyFrontMatterWritesContent ==
    (wpc = "resolved" /\ parsedMarkdown.frontMatter = <<>>) =>
        /\ disk.written
        /\ disk.text = parsedMarkdown.content

C19_Witness ==
    /\ wpc = "resolved" /\ parsedMarkdown.frontMatter = <<>>
    /\ parsedMarkdown.content = Chars("---") \o <<LF>> \o Chars("hello")
    /\ disk.text = parsedMarkdown.content

\* C20: a document with a non-empty frontMatter and a non-empty content is written
\* as an opening --- line, the YAML of the mapping, a closing --- line, then an empty
\* line, then the body text.
C20_BlankLineBeforeBody ==
    ( /\ wpc = "resolved"
      /\ parsedMarkdown.frontMatter # <<>>
      /\ parsedMarkdown.content # <<>> ) =>
        disk.text = Chars("---") \o <<LF>>
                      \o yamlDump(parsedMarkdown.frontMatter, tzOffset)
                      \o Chars("---") \o <<LF>>
                      \o <<LF>>
                      \o parsedMarkdown.content

\* every value of the document's frontMatter is a string
PlainStrings ==
    \A i \in 1..Len(parsedMarkdown.frontMatter) :
        parsedMarkdown.frontMatter[i].value.kind = "string"

\* C21: for a document with a non-empty frontMatter of string values and any body,
\* parsing the text that writeMarkdownFile wrote gives Success with the same keys and
\* values and with the content equal to the body.
C21_WriteThenParseGivesDocument ==
    ( /\ wpc = "resolved" /\ pc = "resolved"
      /\ parsedMarkdown.frontMatter # <<>> /\ PlainStrings ) =>
        /\ result.success
        /\ result.data.frontMatter = parsedMarkdown.frontMatter
        /\ result.data.content = parsedMarkdown.content

(* ------------- properties of convertStringYYYY_MM_DDToDate ------------- *)

\* the argument is a string of exactly the form YYYY-MM-DD naming a calendar date
NamesCalendarDate ==
    /\ dateStringArg.kind = "string"
    /\ MatchesDateOnly(dateStringArg.chars)
    /\ IsCalendarDate(dateStringArg.chars)

\* C22: for every string YYYY-MM-DD, year 0000 to 9999, that names a calendar date,
\* the call returns a Date whose UTC year, month and day are those of the string, and
\* formatting that Date with convertDateToStringYYYY_MM_DD gives the string back.
C22_ToDateRoundTrip ==
    NamesCalendarDate =>
        /\ cpc # "threw"
        /\ cpc \in {"returned", "formatted"} =>
              /\ converted.date.zone = "utc"
              /\ converted.date.time[1] = ToInt(SubSeq(dateStringArg.chars, 1, 4))
              /\ converted.date.time[2] = ToInt(SubSeq(dateStringArg.chars, 6, 7))
              /\ converted.date.time[3] = ToInt(SubSeq(dateStringArg.chars, 9, 10))
        /\ cpc = "formatted" => reformatted = dateStringArg.chars

\* the fields of the trimmed argument, when it has the form YYYY-MM-DD
ArgMonth == ToInt(SubSeq(Trim(dateStringArg.chars), 6, 7))

ArgDay == ToInt(SubSeq(Trim(dateStringArg.chars), 9, 10))

ArgYear == ToInt(SubSeq(Trim(dateStringArg.chars), 1, 4))

ThrewWith(message) == cpc = "threw" /\ converted.error = message

\* C23: the call throws, and returns no Date, for an argument that is not a string
\* ("Input must be a string"), whose trimmed text is not YYYY-MM-DD ("Invalid date
\* format"), whose month is outside 1..12 ("Invalid month"), whose day is outside
\* 1..31 ("Invalid day"), or whose day the month of that year does not have ("Date
\* does not exist in the calendar"); the first of these that applies gives the error.
C23_FirstViolatedCheckThrows ==
    cpc # "call" =>
        IF dateStringArg.kind # "string" THEN ThrewWith("Input must be a string")
        ELSE IF ~MatchesDateOnly(Trim(dateStringArg.chars))
             THEN ThrewWith("Invalid date format")
        ELSE IF ArgMonth \notin 1..12 THEN ThrewWith("Invalid month")
        ELSE IF ArgDay \notin 1..31 THEN ThrewWith("Invalid day")
        ELSE IF ArgDay > DaysInMonth(ArgYear, ArgMonth)
             THEN ThrewWith("Date does not exist in the calendar")
        ELSE TRUE

C23_Witness ==
    /\ ThrewWith("Date does not exist in the calendar")
    /\ ArgYear = 2023 /\ ArgMonth = 2 /\ ArgDay = 29

(* --------------------- properties of the Pager ------------------------- *)

Called(name) == opc = "done" /\ outcome.call = name

RECURSIVE ConcatRows(_)
ConcatRows(pages) ==
    IF pages = <<>> THEN <<>> ELSE Head(pages).dataRows \o ConcatRows(Tail(pages))

\* the least k with k * size >= n
CeilingOf(n, size) == CHOOSE k \in 0..n : k * size >= n /\ (k = 0 \/ (k - 1) * size < n)

MinOf(x, y) == IF x < y THEN x ELSE y

\* C24: over n rows with page size s, totalPages is ceil(n / s), 0 for n = 0; for
\* 1 <= p <= totalPages, getRowsForPage(p) has the rows at indices (p - 1) * s to
\* min(p * s, n) - 1, and these bounds as startIndex and endIndex; the dataRows of
\* getAllPages, put together in order, are the array.
C24_PagesPartitionTheRows ==
    /\ opc # "idle" => totalPages = CeilingOf(rowCount, pageSize)
    /\ (Called("getRowsForPage") /\ outcome.args[1] \in 1..totalPages) =>
          LET p == outcome.args[1]
              first == (p - 1) * pageSize
              last == MinOf(p * pageSize, rowCount) - 1
          IN  /\ ~outcome.threw
              /\ outcome.value.startIndex = first
              /\ outcome.value.endIndex = last
              /\ outcome.value.dataRows = [k \in 1..(last - first + 1) |-> arr[first + k]]
    /\ Called("getAllPages") =>
          /\ Len(outcome.value) = totalPages
          /\ ConcatRows(outcome.value) = arr

C24_Witness ==
    /\ Called("getRowsForPage") /\ rowCount = 4 /\ pageSize = 3
    /\ outcome.args = <<2>>
    /\ outcome.value.dataRows = <<arr[4]>>
    /\ outcome.value.startIndex = 3 /\ outcome.value.endIndex = 3

\* C25: getRowsForPage(p) throws RangeError exactly when p < 1 or p > totalPages, so
\* for every p on an empty pager; otherwise prevPageNumber is p - 1, or -1 on page 1,
\* nextPageNumber is p + 1, or -1 on the last page, and hasPrev and hasNext are
\* hasPrevPage(p) and hasNextPage(p).
C25_RangeErrorAndNeighbours ==
    Called("getRowsForPage") =>
        LET p == outcome.args[1]
        IN  /\ outcome.threw <=> (p < 1 \/ p > totalPages)
            /\ rowCount = 0 => outcome.threw
            /\ ~outcome.threw =>
                  /\ outcome.value.prevPageNumber = (IF p = 1 THEN 0 - 1 ELSE p - 1)
                  /\ outcome.value.nextPageNumber = (IF p = totalPages THEN 0 - 1 ELSE p + 1)
                  /\ outcome.value.hasPrev = hasPrevPage(p)
                  /\ outcome.value.hasNext = hasNextPage(p)

C25_Witness ==
    /\ Called("getRowsForPage") /\ totalPages = 3 /\ outcome.args = <<2>>
    /\ outcome.value.prevPageNumber = 1 /\ outcome.value.nextPageNumber = 3
    /\ outcome.value.hasPrev /\ outcome.value.hasNext

(* ------------------- properties of getPagedData ------------------------ *)

\* C26: for every list, page size and page number from 1 on, isLastPage is true
\* exactly when the page number is ceil(length / pageSize), and isFirstPage exactly
\* when it is 1.
C26_LastPageIsTheLastPage ==
    Called("getPagedData") =>
        LET size == outcome.args[1]
            p == outcome.args[2]
        IN  /\ outcome.value.isLastPage <=> p = CeilingOf(Len(arr), size)
            /\ outcome.value.isFirstPage <=> p = 1

\* C27: pagedData is the items at indices (pageNumber - 1) * pageSize up to, not
\* including, pageNumber * pageSize, as far as the list goes, and rowsReturned is the
\* number of rows of this page, pagedData.length.
C27_RowsReturnedCountsThePage ==
    Called("getPagedData") =>
        LET size == outcome.args[1]
            p == outcome.args[2]
            first == MinOf((p - 1) * size, Len(arr))
            last == MinOf(p * size, Len(arr)) - 1
        IN  /\ outcome.value.pagedData = [k \in 1..(last - first + 1) |-> arr[first + k]]
            /\ outcome.value.rowsReturned = Len(outcome.value.pagedData)

(* ---------------- properties of divideWithRemainder -------------------- *)

AbsOf(x) == IF x < 0 THEN 0 - x ELSE x

\* C28: for integers a and b, b not 0, the quotient is a / b rounded toward negative
\* infinity, and the remainder is a % b: of the sign of a, smaller than b in absolute
\* value, and a - remainder a multiple of b.
C28_FloorQuotientTruncatedRemainder ==
    Called("divideWithRemainder") =>
        LET a == outcome.args[1]
            b == outcome.args[2]
            q == outcome.value.quotient
            r == outcome.value.remainder
        IN  /\ IF b > 0 THEN q * b <= a /\ a < (q + 1) * b
                        ELSE q * b >= a /\ a > (q + 1) * b
            /\ AbsOf(r) < AbsOf(b)
            /\ r # 0 => (r < 0 <=> a < 0)
            /\ \E k \in (0 - AbsOf(a))..AbsOf(a) : a - r = k * b

C28_Witness ==
    /\ Called("divideWithRemainder") /\ outcome.args = <<0 - 17, 5>>
    /\ outcome.value = [quotient |-> 0 - 4, remainder |-> 0 - 2]

(* ------------------ properties of the line endings --------------------- *)

\* the same lines written with the other line ending
OtherEnding == IF file.eol = "LF" THEN "CRLF" ELSE "LF"

Twin == File(file.lines, OtherEnding, TRUE)

\* what the loop collects from the twin file
TwinScan == ScanFrom(SplitLines(FileText(Twin)), 1, NewScan)

\* frontMatterLines.join("\n").trim()
BlockText(st) == Trim(JoinLF(st.frontMatterLines))

CharsOf(s) == {s[i] : i \in 1..Len(s)}

\* C29: two files that differ only in their line ending (\r\n or \n) get the same
\* outcome: the same ParseResult variant, the same frontmatter block text and the same
\* content; and the returned content is the body lines joined with \n alone.
C29_LineEndingDoesNotMatter ==
    Returned =>
        /\ result = parseMarkdownFile(Twin, TheFilename, engine)
        /\ BlockText(ScanOf) = BlockText(TwinScan)
        /\ JoinLF(contentLines) = JoinLF(TwinScan.contentLines)
        /\ result.success =>
               /\ result.data.content = Flatten(contentLines, <<LF>>)
               /\ \A i \in 1..Len(contentLines) :
                      /\ CharsOf(contentLines[i]) \cap {CR, LF} = {}
                      /\ \E k \in 1..Len(file.lines) :
                             contentLines[i] = Chars(file.lines[k])

C29_Witness ==
    /\ Returned /\ file.eol = "CRLF" /\ result.success
    /\ Len(contentLines) = 2 /\ Len(frontMatterLines) = 1
    /\ LF \in CharsOf(result.data.content)

(* ---------------------- properties of the line scan -------------------- *)

\* C30: after each processed line the flag is true exactly when the counter is 1; the
\* 1st and the 2nd delimiter line go to neither buffer; a line that is no delimiter is
\* appended to exactly one buffer: the frontmatter buffer when the counter is 1, the
\* body buffer when the counter is 0 or at least 2.
C30_ScanFillsOneBuffer ==
    [][(pc = "scan" /\ lineIndex' = lineIndex + 1) =>
          LET line == fileLines[lineIndex]
          IN  /\ inFrontMatter' <=> (frontMatterDelimiterCount' = 1)
              /\ IF Trim(line) = Delimiter
                 THEN /\ frontMatterDelimiterCount' = frontMatterDelimiterCount + 1
                      /\ frontMatterDelimiterCount' <= 2 =>
                             /\ frontMatterLines' = frontMatterLines
                             /\ contentLines' = contentLines
                 ELSE /\ frontMatterDelimiterCount' = frontMatterDelimiterCount
                      /\ IF frontMatterDelimiterCount = 1
                         THEN /\ frontMatterLines' = Append(frontMatterLines, line)
                              /\ contentLines' = contentLines
                         ELSE /\ contentLines' = Append(contentLines, line)
                              /\ frontMatterLines' = frontMatterLines]_vars

\* a scan that is over, with a line kept before the block, one in it and one after it
C30_Witness ==
    /\ pc = "scan" /\ lineIndex > Len(fileLines) /\ Len(fileLines) = MaxLines
    /\ frontMatterDelimiterCount = 2 /\ ~inFrontMatter
    /\ Len(frontMatterLines) = 1 /\ Len(contentLines) = 1

====
